---- MODULE Spec2Model ----
(***************************************************************************)
(* A model of the OCR orchestration of doctools (src/pdfocr.py): run_ocr   *)
(* extends PATH by the tools it locates, validates its input, resolves     *)
(* the requested options against the tools found on the search path,      *)
(* hands the resolved configuration to one of                              *)
(* two backends (a child process or the library call) and, on success,     *)
(* writes the optional text file and samples page 1 of the output.         *)
(*                                                                         *)
(* Python strings that the code splits, trims, searches or joins are       *)
(* sequences of one-character strings; Text turns such a sequence into a   *)
(* TLA+ string where it ends up as one element of an argument vector.      *)
(***************************************************************************)
EXTENDS Integers, Sequences, FiniteSets, TLC

VARIABLES
    pc,              \* position of run_ocr: "validate", "resolve", "execute",
                     \*   "post", "done" (returned), "raised" (left by an exception)
    args,            \* the parameters run_ocr was called with
    env,             \* what the run finds outside: files and tools
    deskew,          \* local deskew after lines 250-251
    redo_ocr,        \* local redo_ocr after lines 254-255
    languages,       \* local languages (lines 245-247)
    optimize_level,  \* local optimize_level (lines 260-273)
    stderr,          \* everything printed to sys.stderr, in order
    cmd,             \* argument vector given to subprocess.run, or None
    options,         \* OcrOptions given to ocrmypdf.ocr, or None
    result,          \* run_ocr's return value, or None while running
    sidecar,         \* text written to <stem>.txt, or None
    verified,        \* (sample, skipped) from _pdf_has_searchable_text, or None
    failure,         \* the exception ocrmypdf.ocr raised: [kind, message], or None
    returncode,      \* result.returncode of the child process (line 169), or None
    document,        \* the output PDF as pypdf finds it after the job, or None
    stages           \* the stages of the run that have been entered, in order

vars == <<pc, args, env, deskew, redo_ocr, languages, optimize_level,
          stderr, cmd, options, result, sidecar, verified, failure,
          returncode, document, stages>>

\* An optional value is None or Some(x); Val gives x back.
None == <<>>
Some(x) == <<x>>
Val(o) == o[1]

(***************************************************************************)
(* Bounds of the model.                                                    *)
(***************************************************************************)
MaxOptimize == 4     \* explicit optimize levels range over -1..MaxOptimize
MaxLangLen == 3      \* language strings of LanguageSpec have at most this length
MaxExit == 2         \* exit codes of a backend range over 0..MaxExit
MaxJobs == 1         \* explicit jobs range over 0..MaxJobs

(***************************************************************************)
(* Strings as character sequences.                                         *)
(***************************************************************************)
\* the string of a character sequence (by halves, to keep the evaluation shallow)
RECURSIVE Text(_)
Text(s) ==
    IF s = <<>> THEN ""
    ELSE IF Len(s) = 1 THEN s[1]
    ELSE Text(SubSeq(s, 1, Len(s) \div 2)) \o Text(SubSeq(s, Len(s) \div 2 + 1, Len(s)))

\* str.isspace for the characters the model uses
IsSpace(c) == c \in {" ", "\t", "\n"}

\* str.strip(): drop leading and trailing whitespace
RECURSIVE LStrip(_)
LStrip(s) == IF s # <<>> /\ IsSpace(Head(s)) THEN LStrip(Tail(s)) ELSE s

RECURSIVE RStrip(_)
RStrip(s) ==
    IF s # <<>> /\ IsSpace(s[Len(s)]) THEN RStrip(SubSeq(s, 1, Len(s) - 1)) ELSE s

\* a strip that forgets the right end
Strip_LeftOnly(s) == LStrip(s)

Strip(s) == RStrip(LStrip(s))

\* str.split(sep) for a one-character separator: always at least one piece
RECURSIVE Split(_, _)
Split(s, sep) ==
    IF \A i \in 1..Len(s) : s[i] # sep
    THEN <<s>>
    ELSE LET i == CHOOSE k \in 1..Len(s) :
                      s[k] = sep /\ \A j \in 1..(k - 1) : s[j] # sep
         IN  <<SubSeq(s, 1, i - 1)>> \o Split(SubSeq(s, i + 1, Len(s)), sep)

\* sep.join(pieces)
RECURSIVE Join(_, _)
Join(pieces, sep) ==
    IF pieces = <<>> THEN <<>>
    ELSE IF Len(pieces) = 1 THEN pieces[1]
    ELSE Join(SubSeq(pieces, 1, Len(pieces) \div 2), sep) \o <<sep>>
         \o Join(SubSeq(pieces, Len(pieces) \div 2 + 1, Len(pieces)), sep)

\* str.lower(): the ASCII letters are mapped, every other character is kept
UpperLetters ==
    <<"A", "B", "C", "D", "E", "F", "G", "H", "I", "J", "K", "L", "M",
      "N", "O", "P", "Q", "R", "S", "T", "U", "V", "W", "X", "Y", "Z">>

LowerLetters ==
    <<"a", "b", "c", "d", "e", "f", "g", "h", "i", "j", "k", "l", "m",
      "n", "o", "p", "q", "r", "s", "t", "u", "v", "w", "x", "y", "z">>

LowerChar(c) ==
    IF \E i \in 1..Len(UpperLetters) : UpperLetters[i] = c
    THEN LowerLetters[CHOOSE i \in 1..Len(UpperLetters) : UpperLetters[i] = c]
    ELSE c

Lower(s) == [i \in 1..Len(s) |-> LowerChar(s[i])]

\* needle in hay
Contains(needle, hay) ==
    \E i \in 0..(Len(hay) - Len(needle)) :
        SubSeq(hay, i + 1, i + Len(needle)) = needle

\* str(n) for an int
Digit(d) ==
    CASE d = 0 -> "0" [] d = 1 -> "1" [] d = 2 -> "2" [] d = 3 -> "3" [] d = 4 -> "4"
      [] d = 5 -> "5" [] d = 6 -> "6" [] d = 7 -> "7" [] d = 8 -> "8" [] d = 9 -> "9"

RECURSIVE StrNat(_)
StrNat(n) == IF n < 10 THEN <<Digit(n)>> ELSE StrNat(n \div 10) \o <<Digit(n % 10)>>

Str(n) == IF n < 0 THEN <<"-">> \o StrNat(0 - n) ELSE StrNat(n)

\* every string of at most n characters of an alphabet
RECURSIVE StringsUpTo(_, _)
StringsUpTo(alphabet, n) ==
    IF n = 0 THEN {<<>>}
    ELSE LET shorter == StringsUpTo(alphabet, n - 1)
         IN  shorter \cup {Append(t, c) : t \in shorter, c \in alphabet}

(***************************************************************************)
(* Paths: a path is the character sequence of a file name; resolve() puts  *)
(* the working directory in front of it.                                   *)
(***************************************************************************)
Cwd == <<"/", "w", "/">>

PathResolve(p) == IF p # <<>> /\ Head(p) = "/" THEN p ELSE Cwd \o p

\* the final component of a path
RECURSIVE PathName(_)
PathName(p) ==
    IF \A i \in 1..Len(p) : p[i] # "/" THEN p
    ELSE PathName(SubSeq(p, (CHOOSE k \in 1..Len(p) : p[k] = "/") + 1, Len(p)))

\* Path.suffix: from the last dot of the name, unless the dot leads or ends it
PathSuffix(p) ==
    LET name == PathName(p)
        dots == {i \in 1..Len(name) : name[i] = "."}
    IN  IF dots = {} THEN <<>>
        ELSE LET i == CHOOSE k \in dots : \A j \in dots : j <= k
             IN  IF i = 1 \/ i = Len(name) THEN <<>> ELSE SubSeq(name, i, Len(name))

\* Path.stem: the name without its suffix
PathStem(p) ==
    LET name == PathName(p)
    IN  SubSeq(name, 1, Len(name) - Len(PathSuffix(p)))

\* Path.parent, with its trailing separator
PathParent(p) == SubSeq(p, 1, Len(p) - Len(PathName(p)))

(***************************************************************************)
(* The resolution of the options, lines 245-273 of run_ocr.                *)
(***************************************************************************)
FallbackLanguage == <<"e", "n", "g">>

\* a parse without the fallback of lines 246-247
ParseLanguages_NoFallback(language) ==
    LET pieces   == Split(language, "+")
        stripped == [i \in 1..Len(pieces) |-> Strip(pieces[i])]
    IN  SelectSeq(stripped, LAMBDA piece : piece # <<>>)

\* lines 245-247: languages
ParseLanguages(language) ==
    LET pieces   == Split(language, "+")
        stripped == [i \in 1..Len(pieces) |-> Strip(pieces[i])]
        kept     == SelectSeq(stripped, LAMBDA piece : piece # <<>>)
    IN  IF kept = <<>> THEN <<FallbackLanguage>> ELSE kept

\* a resolution that forgets the incompatibility of redo_ocr and deskew
ResolveDeskew_Kept(d, redo) == d

\* lines 250-251: redo_ocr is incompatible with deskew
ResolveDeskew(d, redo) == IF redo /\ d THEN FALSE ELSE d

\* a resolution that lets redo_ocr stand beside force_ocr
ResolveRedoOcr_Kept(force, redo) == redo

\* lines 254-255: force_ocr takes precedence
ResolveRedoOcr(force, redo) == IF force /\ redo THEN FALSE ELSE redo

\* The notes printed while the optimize level is resolved.
NoteGsDisabled ==
    "Note: Ghostscript not found; optimization disabled (output may be larger). Install Ghostscript and set PATH or GHOSTSCRIPT_PATH to enable."

NoteGsSkipping ==
    "Note: Ghostscript not found; skipping image optimization (output may be larger). Use --optimize 1 after installing Ghostscript for smaller files."

NotePngquant ==
    "Note: pngquant not found; --optimize 2/3 requires it. Using --optimize 1. Install with: choco install pngquant"

\* the dependency a note names, read off its text
NoteNames(note) ==
    CASE note = NoteGsDisabled -> "Ghostscript"
      [] note = NoteGsSkipping -> "Ghostscript"
      [] note = NotePngquant -> "pngquant"

Max(a, b) == IF a >= b THEN a ELSE b
Min(a, b) == IF a <= b THEN a ELSE b

\* a clamp that forgets the lower end
ClampOptimize_UpperOnly(optimize) == Min(3, optimize)

\* line 261
ClampOptimize(optimize) == Max(0, Min(3, optimize))

\* a downgrade that takes one level off instead of disabling the optimization
GhostscriptStage_StepDown(optimize, gs_available) ==
    IF optimize # None
    THEN IF ClampOptimize(Val(optimize)) >= 1 /\ ~gs_available
         THEN [level |-> ClampOptimize(Val(optimize)) - 1, notes |-> <<NoteGsDisabled>>]
         ELSE [level |-> ClampOptimize(Val(optimize)), notes |-> <<>>]
    ELSE [level |-> IF gs_available THEN 1 ELSE 0,
          notes |-> IF ~gs_available THEN <<NoteGsSkipping>> ELSE <<>>]

\* a default level that does not look for Ghostscript
GhostscriptStage_DefaultOne(optimize, gs_available) ==
    IF optimize # None
    THEN IF ClampOptimize(Val(optimize)) >= 1 /\ ~gs_available
         THEN [level |-> 0, notes |-> <<NoteGsDisabled>>]
         ELSE [level |-> ClampOptimize(Val(optimize)), notes |-> <<>>]
    ELSE [level |-> 1, notes |-> <<>>]

\* a default level that falls to 0 without Ghostscript and says nothing
GhostscriptStage_SilentDefault(optimize, gs_available) ==
    IF optimize # None
    THEN IF ClampOptimize(Val(optimize)) >= 1 /\ ~gs_available
         THEN [level |-> 0, notes |-> <<NoteGsDisabled>>]
         ELSE [level |-> ClampOptimize(Val(optimize)), notes |-> <<>>]
    ELSE [level |-> IF gs_available THEN 1 ELSE 0, notes |-> <<>>]

\* lines 260-268: the level and the notes printed, before pngquant is looked at
GhostscriptStage(optimize, gs_available) ==
    IF optimize # None
    THEN IF ClampOptimize(Val(optimize)) >= 1 /\ ~gs_available
         THEN [level |-> 0, notes |-> <<NoteGsDisabled>>]
         ELSE [level |-> ClampOptimize(Val(optimize)), notes |-> <<>>]
    ELSE [level |-> IF gs_available THEN 1 ELSE 0,
          notes |-> IF ~gs_available THEN <<NoteGsSkipping>> ELSE <<>>]

\* a fallback that prints its note and keeps the level
PngquantStage_NoteOnly(stage, pngquant_found) ==
    IF stage.level >= 2 /\ ~pngquant_found
    THEN [level |-> stage.level, notes |-> Append(stage.notes, NotePngquant)]
    ELSE stage

\* lines 271-273: levels 2 and 3 need pngquant
PngquantStage(stage, pngquant_found) ==
    IF stage.level >= 2 /\ ~pngquant_found
    THEN [level |-> 1, notes |-> Append(stage.notes, NotePngquant)]
    ELSE stage

\* lines 257-273
ResolveOptimize(optimize, gs_available, pngquant_found) ==
    PngquantStage(GhostscriptStage(optimize, gs_available), pngquant_found)

(***************************************************************************)
(* The two backends.                                                       *)
(***************************************************************************)
\* sys.executable
PythonExe == "python"

\* lines 147-167 of _run_ocrmypdf_cli: the argument vector
CliCmd(input_file, output_file, d, language, force, redo, level, progress_bar, jobs, pages) ==
    <<PythonExe, "-m", "ocrmypdf", Text(input_file), Text(output_file),
      "-l", Text(language), "--optimize", Text(Str(level))>>
    \o (IF d THEN <<"--deskew">> ELSE <<>>)
    \o (IF force THEN <<"--force-ocr">> ELSE <<>>)
    \o (IF redo THEN <<"--redo-ocr">> ELSE <<>>)
    \o (IF ~progress_bar THEN <<"--no-progress">> ELSE <<>>)
    \o (IF jobs # None THEN <<"--jobs", Text(Str(Val(jobs)))>> ELSE <<>>)
    \o (IF pages # None /\ Val(pages) # "" THEN <<"--pages", Val(pages)>> ELSE <<>>)

\* lines 277-291: the options record of the library call; jobs stays at the
\* library's default (None) unless the caller gave one
OcrOptions(input_file, output_file, pdf_renderer, d, langs, progress_bar, redo, force, level, pages, jobs) ==
    [input_file   |-> Text(input_file),
     output_file  |-> Text(output_file),
     output_type  |-> "auto",
     pdf_renderer |-> pdf_renderer,
     deskew       |-> d,
     languages    |-> [i \in 1..Len(langs) |-> Text(langs[i])],
     progress_bar |-> progress_bar,
     redo_ocr     |-> redo,
     force_ocr    |-> force,
     optimize     |-> level,
     pages        |-> pages,
     jobs         |-> jobs]

\* a test that looks for both names in the message as it is
ConcernsGhostscript_CaseSensitive(err) ==
    \/ Contains(<<"g", "s", "w", "i", "n", "6", "4", "c">>, err)
    \/ Contains(<<"g", "h", "o", "s", "t", "s", "c", "r", "i", "p", "t">>, err)

\* line 315: does a missing-dependency message concern Ghostscript?
ConcernsGhostscript(err) ==
    \/ Contains(<<"g", "s", "w", "i", "n", "6", "4", "c">>, err)
    \/ Contains(<<"g", "h", "o", "s", "t", "s", "c", "r", "i", "p", "t">>, Lower(err))

ErrPriorOcr == "Error: PDF already has a text layer. Use --force-overwrite to re-OCR."
HelpGhostscript == "Ghostscript is required for image optimization. Either: ..."
HelpTesseract == "Tesseract is required. Either: ..."

\* lines 312-334: what the handler of MissingDependencyError prints
MissingDependencyOutput(err) ==
    <<"Error: " \o Text(err),
      IF ConcernsGhostscript(err) THEN HelpGhostscript ELSE HelpTesseract>>

(***************************************************************************)
(* After a successful job: the text file and the sample of page 1.         *)
(* A document is [fault, pages]: pages[i] is the text pypdf extracts from  *)
(* page i (None and "" are both <<>>, as in "extract_text() or ''"), and   *)
(* fault is the step at which pypdf raises: "open" in PdfReader, "count"   *)
(* in reader.pages, "extract" in extract_text, "none" for no failure.      *)
(***************************************************************************)
MaxChars == 500
SkipIfPagesGt == 500

\* str.split() without argument: the maximal runs of non-whitespace
RECURSIVE Words(_)
Words(s) ==
    LET t == LStrip(s)
    IN  IF t = <<>> THEN <<>>
        ELSE LET stops == {i \in 1..Len(t) : IsSpace(t[i])}
                 n == IF stops = {} THEN Len(t)
                      ELSE (CHOOSE i \in stops : \A j \in stops : i <= j) - 1
             IN  <<SubSeq(t, 1, n)>> \o Words(SubSeq(t, n + 1, Len(t)))

\* line 186: text[:max_chars], a Python slice
SliceTo(s, n) ==
    IF n >= 0 THEN SubSeq(s, 1, Min(n, Len(s)))
    ELSE SubSeq(s, 1, Max(0, Len(s) + n))

\* a body that skips a document of exactly skip_if_pages_gt pages too
VerifyBody_SkipsAtThreshold(doc, max_chars, skip_if_pages_gt) ==
    IF doc.fault \in {"open", "count"}
    THEN [raised |-> TRUE, sample |-> None, skipped |-> FALSE, read |-> {}]
    ELSE IF Len(doc.pages) = 0
         THEN [raised |-> FALSE, sample |-> None, skipped |-> FALSE, read |-> {}]
    ELSE IF skip_if_pages_gt # None /\ Len(doc.pages) >= Val(skip_if_pages_gt)
         THEN [raised |-> FALSE, sample |-> None, skipped |-> TRUE, read |-> {}]
    ELSE IF doc.fault = "extract"
         THEN [raised |-> TRUE, sample |-> None, skipped |-> FALSE, read |-> {1}]
    ELSE LET text == SliceTo(Join(Words(doc.pages[1]), " "), max_chars)
         IN  [raised  |-> FALSE,
              sample  |-> IF Strip(text) # <<>> THEN Some(Text(text)) ELSE None,
              skipped |-> FALSE,
              read    |-> {1}]

\* lines 176-186, the body of the try block of _pdf_has_searchable_text:
\* raised tells that pypdf raised, read is the set of pages whose
\* extract_text was called
VerifyBody(doc, max_chars, skip_if_pages_gt) ==
    IF doc.fault \in {"open", "count"}
    THEN [raised |-> TRUE, sample |-> None, skipped |-> FALSE, read |-> {}]
    ELSE IF Len(doc.pages) = 0
         THEN [raised |-> FALSE, sample |-> None, skipped |-> FALSE, read |-> {}]
    ELSE IF skip_if_pages_gt # None /\ Len(doc.pages) > Val(skip_if_pages_gt)
         THEN [raised |-> FALSE, sample |-> None, skipped |-> TRUE, read |-> {}]
    ELSE IF doc.fault = "extract"
         THEN [raised |-> TRUE, sample |-> None, skipped |-> FALSE, read |-> {1}]
    ELSE LET text == SliceTo(Join(Words(doc.pages[1]), " "), max_chars)
         IN  [raised  |-> FALSE,
              sample  |-> IF Strip(text) # <<>> THEN Some(Text(text)) ELSE None,
              skipped |-> FALSE,
              read    |-> {1}]

\* the function without its handler: what pypdf raises leaves it
PdfHasSearchableText_NoExcept(doc, max_chars, skip_if_pages_gt) ==
    VerifyBody(doc, max_chars, skip_if_pages_gt)

\* lines 172-188 of _pdf_has_searchable_text: the body, and the handler of
\* lines 187-188 that turns everything raised into (None, False)
PdfHasSearchableText(doc, max_chars, skip_if_pages_gt) ==
    LET body == VerifyBody(doc, max_chars, skip_if_pages_gt)
    IN  IF body.raised
        THEN [raised |-> FALSE, sample |-> None, skipped |-> FALSE, read |-> body.read]
        ELSE body

\* lines 193-198 of _extract_text_to_file, which has no handler: opening the
\* document, walking its pages or extracting a page may raise
ExtractRaises(doc) ==
    \/ doc.fault \in {"open", "count"}
    \/ doc.fault = "extract" /\ Len(doc.pages) > 0

\* line 198: the separator between the texts of two pages
PageSeparator == "\n"

\* a text file that holds the text of the first page only
ExtractedText_FirstPage(doc) ==
    IF Len(doc.pages) = 0 THEN "" ELSE Text(doc.pages[1])

\* lines 193-198 of _extract_text_to_file: the content written
ExtractedText(doc) == Text(Join(doc.pages, PageSeparator))

\* the path of the text file, line 342
SidecarPath(input_file) ==
    Text(PathParent(input_file) \o PathStem(input_file) \o <<".", "t", "x", "t">>)

MsgWrotePdf(output_file) == "Wrote searchable PDF to: " \o Text(output_file)
MsgWroteText(input_file) == "Wrote extracted text to: " \o SidecarPath(input_file)
MsgVerified == "Text layer verified. Sample from page 1:"
MsgViewerHint == "Use Ctrl+F in the PDF. If Edge does not find text, open the file in Chrome or Adobe Reader."
MsgNoText == "Warning: No searchable text was detected in the output."
MsgTryCli == "Try without --no-use-cli (CLI mode is default and usually produces searchable text)."

\* line 360: the command the last suggestion tells the user to run
SuggestedCommand == <<"ocrmypdf", "--force-ocr", "--deskew", "<input>", "<output>">>

\* the words of a command line, separated by blanks
RECURSIVE CommandLine(_)
CommandLine(argv) ==
    IF Len(argv) = 0 THEN ""
    ELSE IF Len(argv) = 1 THEN argv[1]
    ELSE argv[1] \o " " \o CommandLine(Tail(argv))

MsgRunDirectly == "Or run OCRmyPDF directly: " \o CommandLine(SuggestedCommand)

\* a report that suggests the other backend whatever backend was used
VerificationOutput_BothSuggestions(v, use_cli) ==
    IF v.sample # None
    THEN <<MsgVerified, "  " \o Val(v.sample) \o "...", MsgViewerHint>>
    ELSE IF ~v.skipped
         THEN <<MsgNoText, MsgTryCli, MsgRunDirectly>>
         ELSE <<>>

\* lines 344-361: what is printed for the outcome of the verification
VerificationOutput(v, use_cli) ==
    IF v.sample # None
    THEN <<MsgVerified, "  " \o Val(v.sample) \o "...", MsgViewerHint>>
    ELSE IF ~v.skipped
         THEN <<MsgNoText>> \o (IF ~use_cli THEN <<MsgTryCli>> ELSE <<>>) \o <<MsgRunDirectly>>
         ELSE <<>>

(***************************************************************************)
(* _pdf_has_searchable_text on its own: every document of at most MaxPages *)
(* pages, every threshold up to MaxPages and none, every sample length up  *)
(* to MaxSample. document is the PDF at pdf_path; args holds the other two *)
(* parameters.                                                             *)
(***************************************************************************)
MaxPages == 3
MaxSample == 3

\* texts of a page: none, whitespace only, a word, words between whitespace
PageTexts == {<<>>, <<" ", "\n">>, <<"a">>, <<" ", "a", "\t", " ", "b">>}

RECURSIVE PageSequences(_)
PageSequences(n) ==
    IF n = 0 THEN {<<>>}
    ELSE LET shorter == PageSequences(n - 1)
         IN  shorter \cup {Append(pages, text) : pages \in shorter, text \in PageTexts}

Faults == {"none", "open", "count", "extract"}

\* the variables a specification of one function does not use
Idle ==
    /\ env = [input_exists |-> TRUE, gs_found |-> TRUE, pngquant_found |-> TRUE]
    /\ deskew = FALSE
    /\ redo_ocr = FALSE
    /\ languages = None
    /\ optimize_level = None
    /\ stderr = <<>>
    /\ cmd = None
    /\ options = None
    /\ result = None
    /\ sidecar = None
    /\ failure = None
    /\ returncode = None
    /\ stages = <<>>

InitVerify ==
    \E pages \in PageSequences(MaxPages), fault \in Faults,
       max_chars \in 1..MaxSample,
       skip_if_pages_gt \in {None} \cup {Some(t) : t \in 0..MaxPages} :
        /\ pc = "verify"
        /\ document = Some([fault |-> fault, pages |-> pages])
        /\ args = [max_chars |-> max_chars, skip_if_pages_gt |-> skip_if_pages_gt]
        /\ verified = None
        /\ Idle

\* a call of _pdf_has_searchable_text: it returns, or what it raises leaves it
Verify ==
    /\ pc = "verify"
    /\ LET v == PdfHasSearchableText(Val(document), args.max_chars, args.skip_if_pages_gt)
       IN  IF v.raised
           THEN pc' = "raised" /\ UNCHANGED verified
           ELSE pc' = "done" /\ verified' = Some(v)
    /\ UNCHANGED <<args, env, deskew, redo_ocr, languages, optimize_level, stderr,
                   cmd, options, result, sidecar, failure, returncode, document,
                   stages>>

VerifyNext == Verify

VerifySpec == InitVerify /\ [][VerifyNext]_vars

(***************************************************************************)
(* parse_page_spec of pdfextract.py, lines 16-53. args holds spec and      *)
(* max_page, result the list returned.                                     *)
(***************************************************************************)
MaxSpecLen == 4
MaxPage == 3

Digits == {"0", "1", "2", "3", "4", "5", "6", "7", "8", "9"}

DigitValue(c) ==
    CASE c = "0" -> 0 [] c = "1" -> 1 [] c = "2" -> 2 [] c = "3" -> 3 [] c = "4" -> 4
      [] c = "5" -> 5 [] c = "6" -> 6 [] c = "7" -> 7 [] c = "8" -> 8 [] c = "9" -> 9

\* \d+ : one digit or more
IsDigits(s) == Len(s) > 0 /\ \A i \in 1..Len(s) : s[i] \in Digits

\* the value of a string of digits
RECURSIVE NatOf(_)
NatOf(s) ==
    IF Len(s) = 0 THEN 0
    ELSE 10 * NatOf(SubSeq(s, 1, Len(s) - 1)) + DigitValue(s[Len(s)])

\* int(part), lines 48-52: whitespace around, an optional sign, digits; None
\* stands for ValueError
IntOf(part) ==
    LET t    == Strip(part)
        body == IF t # <<>> /\ t[1] \in {"+", "-"} THEN Tail(t) ELSE t
    IN  IF ~IsDigits(body) THEN None
        ELSE IF t[1] = "-" THEN Some(0 - NatOf(body))
        ELSE Some(NatOf(body))

\* line 38: re.match(r"^\s*(\d+)\s*-\s*(\d+)\s*$", part). Neither \s nor \d
\* matches "-", so the pattern matches exactly the parts with one "-" that
\* has digits, and whitespace around them at most, on each side; the result
\* is the two groups, or None
RangeMatch(part) ==
    LET sides == Split(part, "-")
    IN  IF Len(sides) = 2 /\ IsDigits(Strip(sides[1])) /\ IsDigits(Strip(sides[2]))
        THEN Some(<<Strip(sides[1]), Strip(sides[2])>>)
        ELSE None

\* a single page that is not compared with max_page
SinglePage_NoUpperCheck(part, max_page) ==
    LET p == IntOf(part)
    IN  IF p # None /\ 1 <= Val(p) THEN {Val(p) - 1} ELSE {}

\* lines 47-53: a part without "-"
SinglePage(part, max_page) ==
    LET p == IntOf(part)
    IN  IF p # None /\ 1 <= Val(p) /\ Val(p) <= max_page THEN {Val(p) - 1} ELSE {}

\* lines 37-46: a part with "-"
PageRange(part, max_page) ==
    LET match == RangeMatch(part)
    IN  IF match = None THEN {}
        ELSE LET start == Max(1, NatOf(Val(match)[1]))
                 end   == Min(max_page, NatOf(Val(match)[2]))
             IN  IF start <= end THEN {p - 1 : p \in start..end} ELSE {}

\* lines 33-53: what one part of the specification adds to indices
PartIndices(piece, max_page) ==
    LET part == Strip(piece)
    IN  IF part = <<>> THEN {}
        ELSE IF Contains(<<"-">>, part) THEN PageRange(part, max_page)
        ELSE SinglePage(part, max_page)

\* sorted(indices), line 53
RECURSIVE Sorted(_)
Sorted(S) ==
    IF S = {} THEN <<>>
    ELSE LET least == CHOOSE x \in S : \A y \in S : x <= y
         IN  <<least>> \o Sorted(S \ {least})

\* lines 28-53
ParsePageSpec(spec, max_page) ==
    IF spec = <<>> \/ Strip(spec) = <<>> THEN <<>>
    ELSE LET parts == Split(spec, ",")
         IN  Sorted(UNION {PartIndices(parts[i], max_page) : i \in 1..Len(parts)})

\* the characters of a specification: digits, separators, whitespace, a sign
\* and a letter
PageSpecAlphabet == {"0", "1", "2", ",", "-", " ", "+", "x"}

\* "1-3,2", " 1 - 2 ,x,3", "3,1,1,0", "2-1,9", "01-02", "1,,3 "
PageSpecSamples ==
    {<<"1", "-", "3", ",", "2">>,
     <<" ", "1", " ", "-", " ", "2", " ", ",", "x", ",", "3">>,
     <<"3", ",", "1", ",", "1", ",", "0">>,
     <<"2", "-", "1", ",", "9">>,
     <<"0", "1", "-", "0", "2">>,
     <<"1", ",", ",", "3", " ">>}

InitPageSpec ==
    \E spec \in StringsUpTo(PageSpecAlphabet, MaxSpecLen) \cup PageSpecSamples,
       max_page \in 0..MaxPage :
        /\ pc = "parse"
        /\ args = [spec |-> spec, max_page |-> max_page]
        /\ verified = None
        /\ document = None
        /\ Idle

\* a call of parse_page_spec
ParseSpec ==
    /\ pc = "parse"
    /\ result' = Some(ParsePageSpec(args.spec, args.max_page))
    /\ pc' = "done"
    /\ UNCHANGED <<args, env, deskew, redo_ocr, languages, optimize_level, stderr,
                   cmd, options, sidecar, verified, failure, returncode, document,
                   stages>>

PageSpecNext == ParseSpec

PageSpecSpec == InitPageSpec /\ [][PageSpecNext]_vars

(***************************************************************************)
(* The tool locator, lines 13-129. Its surroundings are a record e:        *)
(*   platform   sys.platform                                               *)
(*   PATH       os.environ["PATH"], the entries between two os.pathsep     *)
(*   environ    the four override variables, each None or Some(directory)  *)
(*   dirs       the directories that exist                                 *)
(*   files      the files that exist, as <<directory, name>>               *)
(*   tesseract_reg  InstallDir of SOFTWARE\Tesseract-OCR, or None          *)
(*   gs_reg     the subkeys of SOFTWARE\Artifex\GPL Ghostscript, in the    *)
(*              order EnumKey gives them, each [name, roots]               *)
(* Directories are written as Path prints them; Path.resolve() leaves the  *)
(* absolute directories of the model as they are.                          *)
(***************************************************************************)
ProgramFiles == "C:\\Program Files"
ProgramFilesX86 == "C:\\Program Files (x86)"

\* Path(p) / name
Child(p, name) == p \o "\\" \o name

IsDir(e, p) == p \in e.dirs

\* Path.exists: the model has directories only among the candidates
Exists(e, p) == p \in e.dirs

\* the file shutil.which looks for in each entry of PATH: PATHEXT adds .exe
\* on Windows
ExeFile(exe, platform) == IF platform = "win32" THEN exe \o ".exe" ELSE exe

\* shutil.which(exe) over the entries of path
Which(e, exe, path) ==
    \E i \in 1..Len(path) : <<path[i], ExeFile(exe, e.platform)>> \in e.files

\* lines 17-22: the override variables of Tesseract
TesseractOverrides(e) ==
    LET one(name) == LET val == e.environ[name]
                     IN  IF val # None /\ Val(val) # "" /\ IsDir(e, Val(val))
                         THEN <<Val(val)>> ELSE <<>>
    IN  one("TESSERACT_PATH") \o one("TESSERACT_OCR")

\* lines 13-41
TesseractCandidatePaths(e) ==
    LET registry == IF e.platform = "win32" /\ e.tesseract_reg # None
                    THEN <<Val(e.tesseract_reg)>> ELSE <<>>
        defaults == <<Child(ProgramFiles, "Tesseract-OCR"),
                      Child(ProgramFilesX86, "Tesseract-OCR")>>
    IN  SelectSeq(TesseractOverrides(e) \o registry \o defaults,
                  LAMBDA p : Exists(e, p))

\* lines 47-54 and 122-129: PATH after _ensure_..._on_path, where found is
\* the answer of shutil.which and candidates the list of the tool
EnsuredPath(e, found, candidates) ==
    IF found THEN e.PATH
    ELSE IF e.platform # "win32" THEN e.PATH
    ELSE IF candidates # <<>> THEN candidates \o e.PATH
    ELSE e.PATH

\* lines 61-68: the override variables of Ghostscript
GhostscriptOverrides(e) ==
    LET one(name) == LET val == e.environ[name]
                     IN  IF val = None \/ Val(val) = "" THEN <<>>
                         ELSE IF IsDir(e, Val(val)) THEN <<Val(val)>>
                         ELSE IF IsDir(e, Child(Val(val), "bin"))
                              THEN <<Child(Val(val), "bin")>>
                         ELSE <<>>
    IN  one("GHOSTSCRIPT_PATH") \o one("GS_PATH")

\* the order of tuples of ints in Python: a < b
RECURSIVE TupleLess(_, _)
TupleLess(a, b) ==
    IF b = <<>> THEN FALSE
    ELSE IF a = <<>> THEN TRUE
    ELSE IF a[1] # b[1] THEN a[1] < b[1]
    ELSE TupleLess(Tail(a), Tail(b))

\* lines 80-84: version_key
VersionKey(s) ==
    LET pieces == Split(s, ".")
        first  == SubSeq(pieces, 1, Min(3, Len(pieces)))
    IN  IF \E i \in 1..Len(first) : IntOf(first[i]) = None
        THEN <<0, 0, 0>>
        ELSE [i \in 1..Len(first) |-> Val(IntOf(first[i]))]

\* line 85: max(subkeys, key=version_key), the first of the greatest
LatestSubkey(subkeys) ==
    subkeys[CHOOSE i \in 1..Len(subkeys) :
                /\ \A j \in 1..Len(subkeys) :
                      ~TupleLess(VersionKey(subkeys[i].name), VersionKey(subkeys[j].name))
                /\ \A j \in 1..(i - 1) :
                      TupleLess(VersionKey(subkeys[j].name), VersionKey(subkeys[i].name))]

\* the loops that append the first hit and break (lines 96-98, 112-114):
\* the first element of hits, as a list of at most one element
FirstOf(hits) == IF hits = <<>> THEN <<>> ELSE <<hits[1]>>

\* lines 72-100: the bin directory of the latest version in the registry
GhostscriptRegistry(e) ==
    IF e.gs_reg = <<>> THEN <<>>
    ELSE LET latest == LatestSubkey(e.gs_reg)
             bins   == [i \in 1..Len(latest.roots) |-> Child(latest.roots[i], "bin")]
         IN  FirstOf(SelectSeq(bins, LAMBDA p : IsDir(e, p)))

\* the version directories of the model, as sorted(..., reverse=True) orders
\* them (line 108): the names are compared as strings, "gs9.56" > "gs10.02"
VersionDirs == <<"gs9.56", "gs10.02">>

\* lines 102-114: the default roots
GhostscriptDefaults(e) ==
    LET one(root) ==
            IF ~IsDir(e, root) THEN <<>>
            ELSE LET bins == [i \in 1..Len(VersionDirs) |->
                                 Child(Child(root, VersionDirs[i]), "bin")]
                 IN  FirstOf(SelectSeq(bins, LAMBDA p :
                         /\ IsDir(e, p)
                         /\ \/ <<p, "gswin64c.exe">> \in e.files
                            \/ <<p, "gswin32c.exe">> \in e.files))
    IN  one(Child(ProgramFiles, "gs")) \o one("M:\\ProgramFiles\\gs")

\* lines 57-115
GhostscriptCandidatePaths(e) ==
    IF e.platform # "win32" THEN GhostscriptOverrides(e)
    ELSE SelectSeq(GhostscriptOverrides(e) \o GhostscriptRegistry(e)
                       \o GhostscriptDefaults(e),
                   LAMBDA p : Exists(e, p))

\* line 121
GsExe(platform) == IF platform = "win32" THEN "gswin64c" ELSE "gs"

\* lines 44-54
EnsureTesseractOnPath(e) ==
    [e EXCEPT !.PATH = EnsuredPath(e, Which(e, "tesseract", e.PATH),
                                   TesseractCandidatePaths(e))]

\* lines 118-129
EnsureGhostscriptOnPath(e) ==
    [e EXCEPT !.PATH = EnsuredPath(e, Which(e, GsExe(e.platform), e.PATH),
                                   GhostscriptCandidatePaths(e))]

\* The surroundings the locator is explored in. A directory of the model is
\* "absent", "empty", or holds one executable, named by its status; "tool"
\* stands for the executable shutil.which looks for on the platform.
MaxCalls == 3

DirT == "C:\\T"
DirT2 == "C:\\T2"
DirR == "C:\\R"
DirG == "C:\\G"
DirG2 == "C:\\G2"
DirTools == "C:\\Tools"

\* the root (HKLM value) of a registry subkey of Ghostscript
GsRoot(name) == Child("C:\\gs", Text(name))

\* the bin directory of a version below the default root
GsDefaultBin(version) == Child(Child(Child(ProgramFiles, "gs"), version), "bin")

Platforms == {"win32", "linux"}

\* os.environ["PATH"] before the first call: empty, or one directory that
\* holds both tools
InitialPaths == {<<"">>, <<DirTools>>}

\* the file names a status stands for
StatusFiles(status, exe, platform) ==
    CASE status \in {"absent", "empty"} -> {}
      [] status = "tool" -> {ExeFile(exe, platform)}
      [] OTHER -> {ExeFile(status, platform)}

\* the surroundings for a status of each of some directories
Surroundings(platform, path, environ, exe, status, tesseract_reg, gs_reg) ==
    LET present == {d \in DOMAIN status : status[d] # "absent"}
        gs_root == Child(ProgramFiles, "gs")
    IN  [platform |-> platform,
         PATH     |-> path,
         environ  |-> environ,
         dirs     |-> present \cup {DirTools}
                      \cup (IF \E i \in 1..Len(VersionDirs) :
                                  GsDefaultBin(VersionDirs[i]) \in present
                            THEN {gs_root} ELSE {}),
         files    |-> UNION {{<<d, f>> : f \in StatusFiles(status[d], exe, platform)} :
                             d \in present}
                      \cup {<<DirTools, ExeFile("tesseract", platform)>>,
                            <<DirTools, ExeFile(GsExe(platform), platform)>>},
         tesseract_reg |-> tesseract_reg,
         gs_reg   |-> gs_reg]

NoOverrides ==
    [TESSERACT_PATH |-> None, TESSERACT_OCR |-> None,
     GHOSTSCRIPT_PATH |-> None, GS_PATH |-> None]

\* the subkeys of the registry: none; 9.56 and 10.02 in both orders; 10.x
\* before 9.56; 9.56.1 before 10.x.1
GsRegistries ==
    LET key(name) == [name |-> name, roots |-> <<GsRoot(name)>>]
        old == <<"9", ".", "5", "6">>
        new == <<"1", "0", ".", "0", "2">>
        odd == <<"1", "0", ".", "x">>
    IN  {<<>>, <<key(old), key(new)>>, <<key(new), key(old)>>, <<key(odd), key(old)>>,
         <<key(<<"9", ".", "5", "6", ".", "1">>), key(<<"1", "0", ".", "x", ".", "1">>)>>}

\* the state before the first call of the locator
LocatorStart(e) ==
    /\ pc = "locate"
    /\ env = e
    /\ args = [calls |-> <<>>, before |-> e.PATH, initial |-> e.PATH]
    /\ deskew = FALSE
    /\ redo_ocr = FALSE
    /\ languages = None
    /\ optimize_level = None
    /\ stderr = <<>>
    /\ cmd = None
    /\ options = None
    /\ result = None
    /\ sidecar = None
    /\ verified = None
    /\ failure = None
    /\ returncode = None
    /\ document = None
    /\ stages = <<>>

\* installations of Tesseract, with no Ghostscript anywhere
InitLocatorTesseract ==
    \E platform \in Platforms, path \in InitialPaths,
       tp \in {None, Some(""), Some(DirT)}, to \in {None, Some(DirT2)},
       reg \in {None, Some(DirR)},
       st \in {"absent", "empty", "tool"}, st2 \in {"absent", "empty"},
       sr \in {"absent", "empty", "tool"}, spf \in {"absent", "empty", "tool"},
       spf86 \in {"absent", "tool"} :
        LocatorStart(Surroundings(
            platform, path,
            [NoOverrides EXCEPT !.TESSERACT_PATH = tp, !.TESSERACT_OCR = to],
            "tesseract",
            (DirT :> st) @@ (DirT2 :> st2) @@ (DirR :> sr)
                @@ (Child(ProgramFiles, "Tesseract-OCR") :> spf)
                @@ (Child(ProgramFilesX86, "Tesseract-OCR") :> spf86),
            reg, <<>>))

\* installations of Ghostscript, with no Tesseract anywhere
InitLocatorGhostscript ==
    \E platform \in Platforms, path \in InitialPaths,
       gp \in {None, Some(DirG)}, gsp \in {None, Some(DirG2)},
       reg \in GsRegistries,
       sg \in {"absent", "empty", "tool"},
       sold \in {"absent", "tool"}, snew \in {"absent", "tool"},
       dold \in {"absent", "tool"}, dnew \in {"absent", "gswin32c", "tool"} :
        LocatorStart(Surroundings(
            platform, path,
            [NoOverrides EXCEPT !.GHOSTSCRIPT_PATH = gp, !.GS_PATH = gsp],
            GsExe(platform),
            (DirG :> sg) @@ (DirG2 :> "tool")
                @@ (Child(GsRoot(<<"9", ".", "5", "6">>), "bin") :> sold)
                @@ (Child(GsRoot(<<"1", "0", ".", "0", "2">>), "bin") :> snew)
                @@ (Child(GsRoot(<<"1", "0", ".", "x">>), "bin") :> "tool")
                @@ (Child(GsRoot(<<"9", ".", "5", "6", ".", "1">>), "bin") :> "tool")
                @@ (Child(GsRoot(<<"1", "0", ".", "x", ".", "1">>), "bin") :> "tool")
                @@ (GsDefaultBin("gs9.56") :> dold)
                @@ (GsDefaultBin("gs10.02") :> dnew),
            None, reg))

InitLocator == InitLocatorTesseract \/ InitLocatorGhostscript

\* a call of _ensure_tesseract_on_path
CallEnsureTesseract ==
    /\ pc = "locate"
    /\ Len(args.calls) < MaxCalls
    /\ env' = EnsureTesseractOnPath(env)
    /\ args' = [args EXCEPT !.calls = Append(@, "tesseract"), !.before = env.PATH]
    /\ UNCHANGED <<pc, deskew, redo_ocr, languages, optimize_level, stderr, cmd,
                   options, result, sidecar, verified, failure, returncode, document,
                   stages>>

\* a call of _ensure_ghostscript_on_path
CallEnsureGhostscript ==
    /\ pc = "locate"
    /\ Len(args.calls) < MaxCalls
    /\ env' = EnsureGhostscriptOnPath(env)
    /\ args' = [args EXCEPT !.calls = Append(@, "ghostscript"), !.before = env.PATH]
    /\ UNCHANGED <<pc, deskew, redo_ocr, languages, optimize_level, stderr, cmd,
                   options, result, sidecar, verified, failure, returncode, document,
                   stages>>

LocatorNext == CallEnsureTesseract \/ CallEnsureGhostscript

LocatorSpec == InitLocator /\ [][LocatorNext]_vars

(***************************************************************************)
(* The calls and the surroundings the model explores.                      *)
(***************************************************************************)
\* file names: scan.pdf, scan.PDF, scan.txt, out.pdf
ScanPdf == <<"s", "c", "a", "n", ".", "p", "d", "f">>
ScanPdfUpper == <<"s", "c", "a", "n", ".", "P", "D", "F">>
ScanTxt == <<"s", "c", "a", "n", ".", "t", "x", "t">>
OutPdf == <<"o", "u", "t", ".", "p", "d", "f">>

\* (input_path, output_path, does the input exist)
FileCases ==
    {<<ScanPdf, OutPdf, TRUE>>, <<ScanPdfUpper, OutPdf, TRUE>>,
     <<ScanPdf, OutPdf, FALSE>>, <<ScanTxt, OutPdf, TRUE>>,
     <<ScanPdf, ScanPdf, TRUE>>}

\* language strings: "eng", "eng+fra", " eng + fra ", " "
LanguageSamples ==
    {<<"e", "n", "g">>,
     <<"e", "n", "g", "+", "f", "r", "a">>,
     <<" ", "e", "n", "g", " ", "+", " ", "f", "r", "a", " ">>,
     <<" ">>}

\* every language string of at most MaxLangLen characters of this alphabet
LanguageAlphabet == {"a", "b", " ", "+"}

OptimizeValues == {None} \cup {Some(n) : n \in (-1)..MaxOptimize}
JobsValues == {None} \cup {Some(n) : n \in 0..MaxJobs}
PagesValues == {None, Some(""), Some("1-3")}
Renderers == {"sandwich", "fpdf2"}
ExitCodes == 0..MaxExit

\* messages of a MissingDependencyError
DependencyMessages ==
    {<<"g", "s", "w", "i", "n", "6", "4", "c">>,
     <<"G", "S", "W", "I", "N", "6", "4", "C">>,
     <<"n", "o", " ", "G", "h", "o", "s", "t", "s", "c", "r", "i", "p", "t", "!">>,
     <<"G", "H", "O", "S", "T", "S", "C", "R", "I", "P", "T">>,
     <<"g", "h", "o", "s", "t", "s", "c", "r", "i", "p">>,
     <<"t", "e", "s", "s", "e", "r", "a", "c", "t">>}

\* output documents: three that pypdf fails on, no page, pages without text,
\* pages with text, and one with more pages than the verifier reads
Documents ==
    {[fault |-> "open", pages |-> <<>>],
     [fault |-> "count", pages |-> <<<<"a">>>>],
     [fault |-> "extract", pages |-> <<<<"a">>, <<"b">>>>],
     [fault |-> "none", pages |-> <<>>],
     [fault |-> "none", pages |-> <<<<" ", "\t">>>>],
     [fault |-> "none", pages |-> <<<<" ", "a", " ", " ", "b">>, <<"c">>>>],
     [fault |-> "none", pages |-> [i \in 1..(SkipIfPagesGt + 1) |-> <<"a">>]]}

\* The parts of a call that the resolution does not read: the files, jobs,
\* progress_bar, pdf_renderer, pages and save_text. The first is the call with
\* the defaults of run_ocr's signature; the others change one part of it, and
\* the last changes all of them.
PlainCall ==
    [input_path |-> ScanPdf, output_path |-> OutPdf, input_exists |-> TRUE,
     jobs |-> None, progress_bar |-> TRUE, pdf_renderer |-> "fpdf2",
     pages |-> None, save_text |-> FALSE]

CallShapes ==
    {PlainCall}
    \cup {[PlainCall EXCEPT !.input_path = fc[1], !.output_path = fc[2],
                            !.input_exists = fc[3]] : fc \in FileCases}
    \cup {[PlainCall EXCEPT !.jobs = j] : j \in JobsValues}
    \cup {[PlainCall EXCEPT !.progress_bar = FALSE]}
    \cup {[PlainCall EXCEPT !.pdf_renderer = r] : r \in Renderers}
    \cup {[PlainCall EXCEPT !.pages = p] : p \in PagesValues}
    \cup {[PlainCall EXCEPT !.save_text = TRUE]}
    \cup {[input_path |-> ScanPdfUpper, output_path |-> OutPdf, input_exists |-> TRUE,
           jobs |-> Some(MaxJobs), progress_bar |-> FALSE, pdf_renderer |-> "sandwich",
           pages |-> Some("1-3"), save_text |-> TRUE]}

\* The machine run_ocr runs on: Windows, an empty PATH, Tesseract under
\* Program Files, and Ghostscript 10.02 under Program Files\gs when gs_found
\* says so; no override variable, no registry key.
RunPlatform == "win32"
RunPath == <<"">>

RunSurroundings(run_env) ==
    Surroundings(RunPlatform, run_env.PATH, NoOverrides, GsExe(RunPlatform),
                 (Child(ProgramFiles, "Tesseract-OCR") :> "tesseract")
                     @@ (GsDefaultBin("gs10.02") :>
                            IF run_env.gs_found THEN "tool" ELSE "absent"),
                 None, <<>>)

\* lines 222-223: PATH after the two calls of the locator
LocatedPath(run_env) ==
    EnsureGhostscriptOnPath(EnsureTesseractOnPath(RunSurroundings(run_env))).PATH

\* lines 257-258: gs_available
GsAvailable(run_env) ==
    Which(RunSurroundings(run_env), GsExe(RunPlatform), run_env.PATH)

\* the state run_ocr starts in, for a call and its surroundings
Start(shape, d, language, redo, force, use_cli, optimize, gs_found, pngquant_found) ==
    /\ pc = "locate"
    /\ args = [input_path   |-> shape.input_path,
               output_path  |-> shape.output_path,
               deskew       |-> d,
               language     |-> language,
               jobs         |-> shape.jobs,
               progress_bar |-> shape.progress_bar,
               redo_ocr     |-> redo,
               force_ocr    |-> force,
               pdf_renderer |-> shape.pdf_renderer,
               use_cli      |-> use_cli,
               pages        |-> shape.pages,
               optimize     |-> optimize,
               save_text    |-> shape.save_text]
    /\ env = [input_exists   |-> shape.input_exists,
              gs_found       |-> gs_found,
              pngquant_found |-> pngquant_found,
              PATH           |-> RunPath]
    /\ deskew = d
    /\ redo_ocr = redo
    /\ languages = None
    /\ optimize_level = None
    /\ stderr = <<>>
    /\ cmd = None
    /\ options = None
    /\ result = None
    /\ sidecar = None
    /\ verified = None
    /\ failure = None
    /\ returncode = None
    /\ document = None
    /\ stages = <<>>

\* What the run reads from each output document (tabulated once).
SampleOf == [doc \in Documents |-> PdfHasSearchableText(doc, MaxChars, Some(SkipIfPagesGt))]
TextOf == [doc \in Documents |-> IF ExtractRaises(doc) THEN "" ELSE ExtractedText(doc)]

Init ==
    \E shape \in CallShapes, language \in LanguageSamples, optimize \in OptimizeValues,
       d, redo, force, use_cli, gs_found, pngquant_found \in BOOLEAN :
        Start(shape, d, language, redo, force, use_cli, optimize, gs_found, pngquant_found)

\* the calls that differ in the language string only, and in the backend
InitLanguage ==
    \E language \in StringsUpTo(LanguageAlphabet, MaxLangLen) \cup LanguageSamples,
       use_cli, save_text \in BOOLEAN :
        Start([PlainCall EXCEPT !.save_text = save_text], TRUE, language, FALSE, FALSE,
              use_cli, None, TRUE, TRUE)

input_file == PathResolve(args.input_path)
output_file == PathResolve(args.output_path)

\* a validation without the check of lines 241-243
InputError_NoSameCheck ==
    IF ~env.input_exists THEN Some("Error: File not found: " \o Text(input_file))
    ELSE IF Lower(PathSuffix(input_file)) # <<".", "p", "d", "f">>
         THEN Some("Error: Input is not a PDF: " \o Text(input_file))
    ELSE None

\* lines 232-243: the three checks of the input, each ending the run with 1
InputError ==
    IF ~env.input_exists THEN Some("Error: File not found: " \o Text(input_file))
    ELSE IF Lower(PathSuffix(input_file)) # <<".", "p", "d", "f">>
         THEN Some("Error: Input is not a PDF: " \o Text(input_file))
    ELSE IF input_file = output_file
         THEN Some("Error: Input and output must be different files.")
    ELSE None

\* lines 222-223: the two calls of the locator, before anything else
LocateTools ==
    /\ pc = "locate"
    /\ env' = [env EXCEPT !.PATH = LocatedPath(env)]
    /\ stages' = stages \o <<"locate tesseract", "locate ghostscript">>
    /\ pc' = "validate"
    /\ UNCHANGED <<args, deskew, redo_ocr, languages, optimize_level, stderr, cmd,
                   options, result, sidecar, verified, failure, returncode, document>>

ValidateInput ==
    /\ pc = "validate"
    /\ IF InputError # None
       THEN /\ stderr' = Append(stderr, Val(InputError))
            /\ result' = Some(1)
            /\ pc' = "done"
       ELSE /\ pc' = "resolve"
            /\ UNCHANGED <<stderr, result>>
    /\ UNCHANGED <<args, env, deskew, redo_ocr, languages, optimize_level,
                   cmd, options, sidecar, verified, failure, returncode, document,
                   stages>>

\* lines 245-273
Resolve ==
    /\ pc = "resolve"
    /\ languages' = Some(ParseLanguages(args.language))
    /\ deskew' = ResolveDeskew(deskew, redo_ocr)
    /\ redo_ocr' = ResolveRedoOcr(args.force_ocr, redo_ocr)
    /\ LET r == ResolveOptimize(args.optimize, GsAvailable(env), env.pngquant_found)
       IN  /\ optimize_level' = Some(r.level)
           /\ stderr' = stderr \o r.notes
    /\ pc' = "execute"
    /\ stages' = Append(stages, "resolver")
    /\ UNCHANGED <<args, env, cmd, options, result, sidecar, verified, failure,
                   returncode, document>>

\* lines 168-169 and 294: the exit code of the child becomes result
RunCliResult(code) == Some(code)

\* lines 293-305 and 147-169: the child process and its exit code
RunCli ==
    /\ pc = "execute"
    /\ args.use_cli
    /\ cmd' = Some(CliCmd(input_file, output_file, deskew, args.language,
                          args.force_ocr, redo_ocr, Val(optimize_level),
                          args.progress_bar, args.jobs, args.pages))
    /\ \E code \in ExitCodes :
         /\ returncode' = Some(code)
         /\ result' = RunCliResult(code)
    /\ pc' = "post"
    /\ stages' = Append(stages, "process")
    /\ UNCHANGED <<args, env, deskew, redo_ocr, languages, optimize_level,
                   stderr, options, sidecar, verified, failure, document>>

ApiOptions ==
    OcrOptions(input_file, output_file, args.pdf_renderer, deskew, Val(languages),
               args.progress_bar, redo_ocr, args.force_ocr, Val(optimize_level),
               args.pages, args.jobs)

\* line 308: the library call returns
RunApiReturns ==
    /\ pc = "execute"
    /\ ~args.use_cli
    /\ options' = Some(ApiOptions)
    /\ \E code \in ExitCodes : result' = Some(code)
    /\ pc' = "post"
    /\ stages' = Append(stages, "library")
    /\ UNCHANGED <<args, env, deskew, redo_ocr, languages, optimize_level,
                   stderr, cmd, sidecar, verified, failure, returncode, document>>

\* lines 309-337: the library call raises; kind is the handler that catches it
ApiFailureOutput(kind, message) ==
    CASE kind = "PriorOcrFoundError" -> <<ErrPriorOcr>>
      [] kind = "MissingDependencyError" -> MissingDependencyOutput(message)
      [] kind = "Exception" -> <<"Error: " \o Text(message)>>

RunApiRaises ==
    /\ pc = "execute"
    /\ ~args.use_cli
    /\ options' = Some(ApiOptions)
    /\ \E kind \in {"PriorOcrFoundError", "MissingDependencyError", "Exception"} :
         \E message \in IF kind = "MissingDependencyError" THEN DependencyMessages
                         ELSE {<<"b", "o", "o", "m">>} :
            /\ failure' = Some([kind |-> kind, message |-> message])
            /\ stderr' = stderr \o ApiFailureOutput(kind, message)
    /\ result' = Some(1)
    /\ pc' = "done"
    /\ stages' = Append(stages, "library")
    /\ UNCHANGED <<args, env, deskew, redo_ocr, languages, optimize_level,
                   cmd, sidecar, verified, returncode, document>>

\* a test that takes every result for a success
JobSucceeded_Always(r) == r = r

\* line 339: if result == 0
JobSucceeded(r) == r = 0

\* line 339 false, line 362
ReturnFailure ==
    /\ pc = "post"
    /\ ~JobSucceeded(Val(result))
    /\ pc' = "done"
    /\ UNCHANGED <<args, env, deskew, redo_ocr, languages, optimize_level,
                   stderr, cmd, options, result, sidecar, verified, failure, returncode, document,
                   stages>>

\* lines 339-362 with the text file asked for: reading the output may raise
SucceedWithText ==
    /\ pc = "post"
    /\ JobSucceeded(Val(result))
    /\ args.save_text
    /\ \E doc \in Documents :
         /\ document' = Some(doc)
         /\ IF ExtractRaises(doc)
            THEN /\ stderr' = Append(stderr, MsgWrotePdf(output_file))
                 /\ pc' = "raised"
                 /\ UNCHANGED <<sidecar, verified, stages>>
            ELSE LET v == SampleOf[doc]
                 IN  /\ sidecar' = Some([path |-> SidecarPath(input_file),
                                         text |-> TextOf[doc]])
                     /\ verified' = Some(v)
                     /\ stderr' = stderr \o <<MsgWrotePdf(output_file),
                                               MsgWroteText(input_file)>>
                                         \o VerificationOutput(v, args.use_cli)
                     /\ stages' = Append(stages, "verifier")
                     /\ pc' = "done"
    /\ UNCHANGED <<args, env, deskew, redo_ocr, languages, optimize_level,
                   cmd, options, result, failure, returncode>>

\* lines 339-362 without the text file
SucceedWithoutText ==
    /\ pc = "post"
    /\ JobSucceeded(Val(result))
    /\ ~args.save_text
    /\ \E doc \in Documents :
         LET v == SampleOf[doc]
         IN  /\ document' = Some(doc)
             /\ verified' = Some(v)
             /\ stderr' = stderr \o <<MsgWrotePdf(output_file)>>
                                 \o VerificationOutput(v, args.use_cli)
    /\ pc' = "done"
    /\ stages' = Append(stages, "verifier")
    /\ UNCHANGED <<args, env, deskew, redo_ocr, languages, optimize_level,
                   cmd, options, result, sidecar, failure, returncode>>

Next ==
    \/ LocateTools
    \/ ValidateInput
    \/ Resolve
    \/ RunCli
    \/ RunApiReturns
    \/ RunApiRaises
    \/ ReturnFailure
    \/ SucceedWithText
    \/ SucceedWithoutText

Spec == Init /\ [][Next]_vars

LanguageSpec == InitLanguage /\ [][Next]_vars

(***************************************************************************)
(* The properties checked.                                                 *)
(***************************************************************************)
HasArg(argv, a) == \E i \in 1..Len(argv) : argv[i] = a

\* the argument that follows the first occurrence of key
ArgAfter(argv, key) == argv[(CHOOSE i \in 1..Len(argv) : argv[i] = key /\ \A j \in 1..(i - 1) : argv[j] # key) + 1]

\* the resolution has run
Resolved == optimize_level # None

\* the downgrade notes printed so far
Notes == SelectSeq(stderr, LAMBDA m : m \in {NoteGsDisabled, NoteGsSkipping, NotePngquant})

\* C1: a request with redo_ocr and deskew both true reaches the selected
\* backend with deskew off: no --deskew switch in the argument vector of the
\* child process, deskew = FALSE in the options of the library call.
C1_DeskewOffWithRedo ==
    (args.redo_ocr /\ args.deskew) =>
        /\ cmd # None => ~HasArg(Val(cmd), "--deskew")
        /\ options # None => ~Val(options).deskew

C1_Witness ==
    /\ args.redo_ocr /\ args.deskew /\ ~args.force_ocr
    /\ cmd # None
    /\ HasArg(Val(cmd), "--redo-ocr")

\* C2: a request with force_ocr and redo_ocr both true reaches the selected
\* backend with redo_ocr off and force_ocr on.
C2_RedoOffWithForce ==
    (args.force_ocr /\ args.redo_ocr) =>
        /\ cmd # None => ~HasArg(Val(cmd), "--redo-ocr") /\ HasArg(Val(cmd), "--force-ocr")
        /\ options # None => ~Val(options).redo_ocr /\ Val(options).force_ocr

C2_Witness ==
    /\ args.force_ocr /\ args.redo_ocr
    /\ options # None
    /\ Val(options).force_ocr

\* C3 as stated: with an explicit level of 2 and pngquant not found, whether
\* or not Ghostscript is found, the resolved level is 1 and exactly one note
\* is printed, which names pngquant.
C3_AsStated ==
    (Resolved /\ args.optimize = Some(2) /\ ~env.pngquant_found) =>
        /\ Val(optimize_level) = 1
        /\ Len(Notes) = 1
        /\ NoteNames(Notes[1]) = "pngquant"

\* C3 as amended: with an explicit level of 2 and pngquant not found, exactly
\* one note is printed; with Ghostscript found the resolved level is 1 and
\* the note names pngquant, with Ghostscript not found the resolved level is
\* 0 and the note names Ghostscript.
C3_LevelTwoWithoutPngquant ==
    (Resolved /\ args.optimize = Some(2) /\ ~env.pngquant_found) =>
        /\ Len(Notes) = 1
        /\ env.gs_found => Val(optimize_level) = 1 /\ NoteNames(Notes[1]) = "pngquant"
        /\ ~env.gs_found => Val(optimize_level) = 0 /\ NoteNames(Notes[1]) = "Ghostscript"

C3_Witness ==
    /\ pc = "execute"
    /\ args.optimize = Some(2) /\ ~env.pngquant_found /\ env.gs_found
    /\ Val(optimize_level) = 1
    /\ Notes = <<NotePngquant>>

\* C4: a request without an optimize level, with Ghostscript not found,
\* resolves to level 0 and prints exactly one note, which names Ghostscript.
C4_DefaultWithoutGhostscript ==
    (Resolved /\ args.optimize = None /\ ~env.gs_found) =>
        /\ Val(optimize_level) = 0
        /\ Len(Notes) = 1
        /\ NoteNames(Notes[1]) = "Ghostscript"

C4_Witness ==
    /\ pc = "done"
    /\ args.optimize = None /\ ~env.gs_found /\ ~env.pngquant_found
    /\ result = Some(0)
    /\ Val(optimize_level) = 0

\* C5: the resolved level is the function of (requested level, Ghostscript
\* found, pngquant found) that the claim describes, whatever the other
\* fields of the request are.
C5_LevelOf(requested, gs, png) ==
    LET first == IF requested # None
                 THEN LET clamped == Min(3, Max(0, Val(requested)))
                      IN  IF clamped >= 1 /\ ~gs THEN 0 ELSE clamped
                 ELSE IF gs THEN 1 ELSE 0
    IN  IF first >= 2 /\ ~png THEN 1 ELSE first

C5_LevelIsFunction ==
    Resolved => Val(optimize_level) = C5_LevelOf(args.optimize, env.gs_found, env.pngquant_found)

C5_Witness ==
    /\ Resolved
    /\ args.optimize = Some(-1)
    /\ Val(optimize_level) = 0
    /\ Notes = <<>>
    /\ ~env.gs_found
\* C6: resolving the resolved fields again, as a new request with the
\* language list joined by "+" and the resolved level as an explicit level,
\* under the same tools, gives the same fields and prints no note.
C6_ResolutionIdempotent ==
    Resolved =>
        /\ ResolveDeskew(deskew, redo_ocr) = deskew
        /\ ResolveRedoOcr(args.force_ocr, redo_ocr) = redo_ocr
        /\ ResolveOptimize(optimize_level, env.gs_found, env.pngquant_found)
             = [level |-> Val(optimize_level), notes |-> <<>>]
        /\ ParseLanguages(Join(Val(languages), "+")) = Val(languages)

C6_Witness ==
    /\ Resolved
    /\ args.deskew /\ args.redo_ocr /\ args.force_ocr
    /\ ~deskew /\ ~redo_ocr
    /\ args.optimize = Some(3) /\ ~env.pngquant_found /\ Val(optimize_level) = 1
    /\ Len(args.language) > 7 /\ Len(Val(languages)) = 2

\* C7: every resolved job can be run as it is: redo_ocr never stands with
\* deskew or with force_ocr, the level is in 0..3, at least 1 only with
\* Ghostscript found and at least 2 only with pngquant found, and the
\* language list is not empty; the options of the library call say the same.
C7_ResolvedJobExecutable ==
    Resolved =>
        /\ ~(redo_ocr /\ deskew)
        /\ ~(args.force_ocr /\ redo_ocr)
        /\ Val(optimize_level) \in 0..3
        /\ Val(optimize_level) >= 1 => env.gs_found
        /\ Val(optimize_level) >= 2 => env.pngquant_found
        /\ Len(Val(languages)) >= 1
        /\ options # None =>
             /\ ~(Val(options).redo_ocr /\ Val(options).deskew)
             /\ ~(Val(options).force_ocr /\ Val(options).redo_ocr)
             /\ Val(options).optimize = Val(optimize_level)
             /\ Len(Val(options).languages) >= 1

C7_Witness ==
    /\ options # None
    /\ args.language = <<" ">>
    /\ args.optimize = Some(MaxOptimize)
    /\ env.gs_found /\ env.pngquant_found
    /\ Val(options).optimize = 3
    /\ Val(options).languages = <<"eng">>

\* C8: the resolved language list is, in the order of the string, the
\* pieces between "+" signs with the whitespace at their ends removed, those
\* that are empty left out; without such a piece it is the one code "eng".
\* The pieces are read off the positions of the "+" signs.
C8_Trimmed(segment) ==
    LET solid == {i \in 1..Len(segment) : segment[i] \notin {" ", "\t"}}
    IN  IF solid = {} THEN <<>>
        ELSE SubSeq(segment, CHOOSE i \in solid : \A j \in solid : i <= j,
                             CHOOSE i \in solid : \A j \in solid : j <= i)

RECURSIVE C8_PiecesFrom(_, _)
C8_PiecesFrom(s, cut) ==
    IF cut > Len(s) THEN <<>>
    ELSE LET cuts  == {i \in (cut + 1)..Len(s) : s[i] = "+"} \cup {Len(s) + 1}
             next  == CHOOSE i \in cuts : \A j \in cuts : i <= j
             piece == C8_Trimmed(SubSeq(s, cut + 1, next - 1))
         IN  (IF piece = <<>> THEN <<>> ELSE <<piece>>) \o C8_PiecesFrom(s, next)

C8_LanguagesParsed ==
    languages # None =>
        Val(languages) = IF C8_PiecesFrom(args.language, 0) = <<>>
                         THEN <<<<"e", "n", "g">>>>
                         ELSE C8_PiecesFrom(args.language, 0)

C8_Witness ==
    /\ pc = "done"
    /\ args.language = <<"e", "n", "g", "+", "f", "r", "a">>
    /\ Val(languages) = <<<<"e", "n", "g">>, <<"f", "r", "a">>>>
\* C9: the argument vector of the child process carries every resolved
\* field: after -l the resolved language list joined by "+", each of
\* --deskew, --force-ocr, --redo-ocr exactly when the resolved flag is true,
\* the level and the jobs as strings, the renderer and the page range.
C9_CliCarriesResolvedJob ==
    cmd # None =>
        LET argv == Val(cmd)
        IN  /\ ArgAfter(argv, "-l") = Text(Join(Val(languages), "+"))
            /\ HasArg(argv, "--deskew") <=> deskew
            /\ HasArg(argv, "--force-ocr") <=> args.force_ocr
            /\ HasArg(argv, "--redo-ocr") <=> redo_ocr
            /\ ArgAfter(argv, "--optimize") = Text(Str(Val(optimize_level)))
            /\ args.jobs # None => ArgAfter(argv, "--jobs") = Text(Str(Val(args.jobs)))
            /\ (args.pages # None /\ Val(args.pages) # "") =>
                   ArgAfter(argv, "--pages") = Val(args.pages)
            /\ HasArg(argv, args.pdf_renderer)

\* C10: when the library call raises, run_ocr returns 1, writes no text
\* file and does not read the output; after a MissingDependencyError the
\* Ghostscript help is printed for the messages that contain "gswin64c" or,
\* in any case of letters, "ghostscript", and the Tesseract help for the
\* others; after the other failures neither help is printed.
C10_GhostscriptMessages ==
    {<<"g", "s", "w", "i", "n", "6", "4", "c">>,
     <<"n", "o", " ", "G", "h", "o", "s", "t", "s", "c", "r", "i", "p", "t", "!">>,
     <<"G", "H", "O", "S", "T", "S", "C", "R", "I", "P", "T">>}

C10_ApiFailureReturnsOne ==
    failure # None =>
        /\ pc = "done"
        /\ result = Some(1)
        /\ sidecar = None
        /\ verified = None
        /\ cmd = None
        /\ HasArg(stderr, HelpGhostscript)
             <=> /\ Val(failure).kind = "MissingDependencyError"
                 /\ Val(failure).message \in C10_GhostscriptMessages
        /\ HasArg(stderr, HelpTesseract)
             <=> /\ Val(failure).kind = "MissingDependencyError"
                 /\ Val(failure).message \notin C10_GhostscriptMessages

C10_Witness ==
    /\ failure # None
    /\ Val(failure).kind = "MissingDependencyError"
    /\ Val(failure).message = <<"G", "H", "O", "S", "T", "S", "C", "R", "I", "P", "T">>
    /\ HasArg(stderr, HelpGhostscript)
    /\ result = Some(1)

\* C11: a run with valid input through the process backend returns exactly
\* the exit code of the child process, whatever save_text and the outcome of
\* the verification are: once the child has ended and run_ocr has left the
\* steps after it, run_ocr has returned, and returned the child's exit code.
C11_CliReturnsChildExitCode ==
    (returncode # None /\ pc # "post") =>
        /\ pc = "done"
        /\ result = returncode

\* C12: when the input file does not exist, has no .pdf suffix or is the
\* output file, run_ocr returns 1 and attempts no job: no child process, no
\* library call, no note of the resolution, no text file, no verification;
\* only the error message is printed.
C12_InvalidInput ==
    \/ ~env.input_exists
    \/ args.input_path \notin {ScanPdf, ScanPdfUpper}
    \/ args.input_path = args.output_path

C12_InvalidInputReturnsOne ==
    (C12_InvalidInput /\ pc \notin {"locate", "validate"}) =>
        /\ pc = "done"
        /\ result = Some(1)
        /\ cmd = None /\ returncode = None
        /\ options = None /\ failure = None
        /\ languages = None /\ optimize_level = None
        /\ Notes = <<>>
        /\ Len(stderr) = 1
        /\ sidecar = None
        /\ verified = None

C12_Witness ==
    /\ env.input_exists
    /\ args.input_path = ScanPdf
    /\ args.output_path = ScanPdf
    /\ pc = "done"
    /\ result = Some(1)
    /\ stderr = <<"Error: Input and output must be different files.">>

\* C20: a resolution prints exactly one note when the resolved optimize level
\* is lower than the level the same request resolves to with Ghostscript and
\* pngquant both found, and no note otherwise; the note names a dependency
\* that is missing and whose presence alone would have given a higher level;
\* a request without an optimize level prints no note when Ghostscript is
\* found.
C20_LevelWithBothTools ==
    IF args.optimize = None THEN 1 ELSE Min(3, Max(0, Val(args.optimize)))

C20_OneNoteIffDowngraded ==
    Resolved =>
        /\ Len(Notes) = IF Val(optimize_level) < C20_LevelWithBothTools THEN 1 ELSE 0
        /\ Len(Notes) = 1 =>
              \/ /\ NoteNames(Notes[1]) = "Ghostscript"
                 /\ ~env.gs_found
                 /\ C5_LevelOf(args.optimize, TRUE, env.pngquant_found) > Val(optimize_level)
              \/ /\ NoteNames(Notes[1]) = "pngquant"
                 /\ ~env.pngquant_found
                 /\ C5_LevelOf(args.optimize, env.gs_found, TRUE) > Val(optimize_level)
        /\ (args.optimize = None /\ env.gs_found) => Notes = <<>>

C20_Witness ==
    /\ Resolved
    /\ args.optimize = Some(3)
    /\ ~env.gs_found
    /\ ~env.pngquant_found
    /\ Val(optimize_level) = 0
    /\ Notes = <<NoteGsDisabled>>

\* C15 as stated: after a successful job whose verification found no sample
\* and was not skipped, the warning and two suggestions are printed for
\* either backend, one to retry with the other backend and one to run
\* ocrmypdf directly with a forced OCR pass that does not deskew; after a
\* skipped verification none of them is printed.
C15_AsStated ==
    verified # None =>
        /\ (Val(verified).sample = None /\ ~Val(verified).skipped) =>
              /\ HasArg(stderr, MsgNoText)
              /\ HasArg(stderr, MsgTryCli)
              /\ HasArg(stderr, MsgRunDirectly)
              /\ HasArg(SuggestedCommand, "--force-ocr")
              /\ ~HasArg(SuggestedCommand, "--deskew")
        /\ Val(verified).skipped =>
              /\ ~HasArg(stderr, MsgNoText)
              /\ ~HasArg(stderr, MsgTryCli)
              /\ ~HasArg(stderr, MsgRunDirectly)

\* C15: after a successful job whose verification found no sample and was
\* not skipped, run_ocr prints as its last lines the warning, then, only when
\* the library backend was used, the suggestion to use the process backend,
\* then the suggestion to run ocrmypdf directly with --force-ocr and
\* --deskew; after a skipped verification, and after a sample was found, none
\* of the three is printed.
C15_LastLines(n) == SubSeq(stderr, Len(stderr) - n + 1, Len(stderr))

C15_WarningAndSuggestions ==
    verified # None =>
        /\ (Val(verified).sample = None /\ ~Val(verified).skipped) =>
              /\ args.use_cli => C15_LastLines(2) = <<MsgNoText, MsgRunDirectly>>
              /\ ~args.use_cli => C15_LastLines(3) = <<MsgNoText, MsgTryCli, MsgRunDirectly>>
              /\ HasArg(stderr, MsgTryCli) <=> ~args.use_cli
              /\ SuggestedCommand[1] = "ocrmypdf"
              /\ HasArg(SuggestedCommand, "--force-ocr")
              /\ HasArg(SuggestedCommand, "--deskew")
        /\ (Val(verified).skipped \/ Val(verified).sample # None) =>
              /\ ~HasArg(stderr, MsgNoText)
              /\ ~HasArg(stderr, MsgTryCli)
              /\ ~HasArg(stderr, MsgRunDirectly)

C15_Witness ==
    /\ verified # None
    /\ result = Some(0)
    /\ Val(verified).sample = None
    /\ ~Val(verified).skipped
    /\ args.use_cli
    /\ HasArg(stderr, MsgNoText)
    /\ ~HasArg(stderr, MsgTryCli)
    /\ HasArg(stderr, MsgRunDirectly)

\* The texts of the pages, in page order, with sep between two consecutive
\* pages.
RECURSIVE C18_PagesWith(_, _)
C18_PagesWith(pages, sep) ==
    IF Len(pages) = 0 THEN ""
    ELSE IF Len(pages) = 1 THEN Text(pages[1])
    ELSE LET half == Len(pages) \div 2
         IN  C18_PagesWith(SubSeq(pages, 1, half), sep) \o sep
             \o C18_PagesWith(SubSeq(pages, half + 1, Len(pages)), sep)

\* the text file of a run on scan.pdf or scan.PDF in the directory /w
C18_Placement ==
    /\ (sidecar # None) => (result = Some(0) /\ args.save_text)
    /\ (pc = "done" /\ result = Some(0) /\ args.save_text) => sidecar # None
    /\ (sidecar # None) => Val(sidecar).path = "/w/scan.txt"

\* C18 as stated: the text file is written only when the result is 0 and
\* save_text is set, beside the input file under its stem with .txt, and it
\* holds the text of every page of the output in page order, consecutive
\* pages separated by a blank line.
C18_AsStated ==
    /\ C18_Placement
    /\ (sidecar # None) =>
           Val(sidecar).text = C18_PagesWith(Val(document).pages, "\n\n")

\* C18: the text file is written only when the result is 0 and save_text is
\* set, and is written whenever such a run returns; it is placed beside the
\* input file under its stem with .txt, and it holds the text of every page
\* of the output in page order, consecutive pages separated by one newline
\* character.
C18_SidecarContent ==
    /\ C18_Placement
    /\ (sidecar # None) =>
           Val(sidecar).text = C18_PagesWith(Val(document).pages, "\n")

C18_Witness ==
    /\ sidecar # None
    /\ Val(document).pages = <<<<" ", "a", " ", " ", "b">>, <<"c">>>>
    /\ Val(sidecar).text = " a  b\nc"
    /\ Val(sidecar).path = "/w/scan.txt"
    /\ args.input_path = ScanPdfUpper

\* C13: for a document pypdf reads without failure, with n pages, and a
\* threshold t: n = 0 gives (none, skipped = false); n > t gives (none,
\* skipped = true) and no page is read; otherwise page 1 and no other page
\* is read, the result is not skipped, and the sample is none exactly when
\* page 1 has no character other than whitespace. A document of exactly t
\* pages is not skipped.
C13_Blank(text) == \A i \in 1..Len(text) : text[i] \in {" ", "\t", "\n"}

C13_VerifyByPageCount ==
    (pc = "done" /\ Val(document).fault = "none") =>
        LET n == Len(Val(document).pages)
            t == args.skip_if_pages_gt
            v == Val(verified)
        IN  /\ n = 0 => (v.sample = None /\ ~v.skipped /\ v.read = {})
            /\ (t # None /\ n > Val(t)) => (v.sample = None /\ v.skipped /\ v.read = {})
            /\ (n >= 1 /\ (t = None \/ n <= Val(t))) =>
                  /\ v.read = {1}
                  /\ ~v.skipped
                  /\ v.sample = None <=> C13_Blank(Val(document).pages[1])
            /\ (t # None /\ n = Val(t)) => ~v.skipped

C13_Witness ==
    /\ pc = "done"
    /\ Val(document).fault = "none"
    /\ Len(Val(document).pages) = 2
    /\ args.skip_if_pages_gt = Some(2)
    /\ Val(document).pages[1] = <<" ", "a", "\t", " ", "b">>
    /\ args.max_chars = 3
    /\ Val(verified) = [raised |-> FALSE, sample |-> Some("a b"), skipped |-> FALSE, read |-> {1}]

\* C14: _pdf_has_searchable_text never raises: when pypdf fails while the
\* document is opened, while its pages are counted or while the text of page
\* 1 is extracted, the result is (none, skipped = false); and in every result
\* skipped = true comes with no sample.
C14_VerifyNeverRaises ==
    /\ pc # "raised"
    /\ pc = "done" =>
          LET doc == Val(document)
              v   == Val(verified)
          IN  /\ doc.fault \in {"open", "count"} => (v.sample = None /\ ~v.skipped)
              /\ (doc.fault = "extract" /\ 1 \in v.read) => (v.sample = None /\ ~v.skipped)
              /\ v.skipped => v.sample = None

C14_Witness ==
    /\ pc = "done"
    /\ Val(document).fault = "extract"
    /\ Len(Val(document).pages) = 1
    /\ Val(verified).read = {1}
    /\ Val(verified).sample = None
    /\ ~Val(verified).skipped

\* C19: for every specification string and every max_page >= 0 the list
\* parse_page_spec returns is strictly increasing, holds indices of
\* 0..max_page-1 only, and holds p-1, for a page p of 1..max_page, exactly
\* when some part between two commas names p: as a number (digits, or "+"
\* and digits, as int() reads them), or as a range a-b with a <= p <= b;
\* whitespace around a part, a number or the dash does not count. The other
\* parts and the pages out of range add nothing; a specification that is
\* empty or blank gives the empty list.
C19_White == {" ", "\t", "\n"}

C19_Trimmed(s) ==
    LET solid == {i \in 1..Len(s) : s[i] \notin C19_White}
    IN  IF solid = {} THEN <<>>
        ELSE SubSeq(s, CHOOSE i \in solid : \A j \in solid : i <= j,
                       CHOOSE i \in solid : \A j \in solid : j <= i)

C19_Numeral(s) ==
    /\ s # <<>>
    /\ \A i \in 1..Len(s) : \E d \in 0..9 : s[i] = Digit(d)

RECURSIVE C19_Value(_)
C19_Value(s) ==
    IF s = <<>> THEN 0
    ELSE (CHOOSE d \in 0..9 : s[1] = Digit(d)) * 10 ^ (Len(s) - 1) + C19_Value(Tail(s))

\* the parts of a specification: the stretches between two commas
C19_Parts(spec) ==
    {SubSeq(spec, i, j) : <<i, j>> \in
        {<<i, j>> \in (1..(Len(spec) + 1)) \X (0..Len(spec)) :
            /\ i <= j + 1
            /\ i = 1 \/ spec[i - 1] = ","
            /\ j = Len(spec) \/ spec[j + 1] = ","
            /\ \A k \in i..j : spec[k] # ","}}

C19_Names(part, p) ==
    LET t == C19_Trimmed(part)
    IN  \/ C19_Numeral(t) /\ C19_Value(t) = p
        \/ /\ t # <<>>
           /\ t[1] = "+"
           /\ C19_Numeral(Tail(t))
           /\ C19_Value(Tail(t)) = p
        \/ \E i \in 1..Len(part) :
              /\ part[i] = "-"
              /\ LET a == C19_Trimmed(SubSeq(part, 1, i - 1))
                     b == C19_Trimmed(SubSeq(part, i + 1, Len(part)))
                 IN  /\ C19_Numeral(a)
                     /\ C19_Numeral(b)
                     /\ C19_Value(a) <= p
                     /\ p <= C19_Value(b)

C19_PagesParsed ==
    (pc = "done" /\ result # None) =>
        LET pages == Val(result)
        IN  /\ \A i \in 1..(Len(pages) - 1) : pages[i] < pages[i + 1]
            /\ \A i \in 1..Len(pages) : pages[i] \in 0..(args.max_page - 1)
            /\ \A p \in 1..args.max_page :
                  (\E i \in 1..Len(pages) : pages[i] = p - 1)
                      <=> \E part \in C19_Parts(args.spec) : C19_Names(part, p)
            /\ C19_Trimmed(args.spec) = <<>> => pages = <<>>

C19_Witness ==
    /\ pc = "done"
    /\ args.spec = <<"1", "-", "3", ",", "2">>
    /\ args.max_page = 2
    /\ result = Some(<<0, 1>>)

\* the tool of the last call of the locator, and whether the same function
\* was called before
C16_LastTool == args.calls[Len(args.calls)]

C16_CalledBefore ==
    \E i \in 1..(Len(args.calls) - 1) : args.calls[i] = C16_LastTool

\* C16: for each tool the mutation of PATH is idempotent: once
\* _ensure_tesseract_on_path (or _ensure_ghostscript_on_path) has been
\* called, a further call of the same function leaves PATH as it was, on
\* every platform, for every set of existing candidate directories and every
\* initial PATH.
C16_LocatorIdempotent ==
    (pc = "locate" /\ Len(args.calls) >= 2 /\ C16_CalledBefore) =>
        env.PATH = args.before

\* the existing directories the override variables of a tool point at
C17_Overrides(tool) ==
    LET names  == IF tool = "tesseract" THEN <<"TESSERACT_PATH", "TESSERACT_OCR">>
                  ELSE <<"GHOSTSCRIPT_PATH", "GS_PATH">>
        values == [i \in 1..2 |-> env.environ[names[i]]]
        set    == SelectSeq(values, LAMBDA v : v # None /\ Val(v) \in env.dirs)
    IN  [i \in 1..Len(set) |-> Val(set[i])]

C17_Resolvable(tool, path) ==
    LET exe   == IF tool = "tesseract" THEN "tesseract"
                 ELSE IF env.platform = "win32" THEN "gswin64c" ELSE "gs"
        file  == IF env.platform = "win32" THEN exe \o ".exe" ELSE exe
    IN  \E i \in 1..Len(path) : <<path[i], file>> \in env.files

\* C17: a call of the locator for a tool that is resolvable on PATH leaves
\* PATH unchanged; a call for a tool that is not resolvable, while an
\* override variable of the tool points at an existing directory, puts that
\* directory at the front of PATH, before every other candidate and before
\* the old entries, on every platform.
C17_OverridePrepended ==
    (pc = "locate" /\ Len(args.calls) >= 1) =>
        LET overrides == C17_Overrides(C16_LastTool)
            found     == C17_Resolvable(C16_LastTool, args.before)
            added     == Len(env.PATH) - Len(args.before)
        IN  /\ found => env.PATH = args.before
            /\ (~found /\ overrides # <<>>) =>
                  /\ added >= Len(overrides)
                  /\ SubSeq(env.PATH, 1, Len(overrides)) = overrides
                  /\ SubSeq(env.PATH, added + 1, Len(env.PATH)) = args.before

\* The rank of a registry entry as the claim describes it: the components
\* between the dots, a component that is not a number counting as zero.
C22_Key(name) ==
    LET pieces == Split(name, ".")
    IN  [i \in 1..Len(pieces) |->
            IF C19_Numeral(pieces[i]) THEN C19_Value(pieces[i]) ELSE 0]

C22_At(key, i) == IF i <= Len(key) THEN key[i] ELSE 0

C22_Above(a, b) ==
    \E i \in 1..(Len(a) + Len(b)) :
        /\ C22_At(a, i) > C22_At(b, i)
        /\ \A j \in 1..(i - 1) : C22_At(a, j) = C22_At(b, j)

\* C22: when _ensure_ghostscript_on_path reads the registry (Windows,
\* gswin64c not resolvable), the entry it takes is the one with the highest
\* version, the components compared as numbers and a non-numeric component
\* counting as zero ('10.x.1' above '9.56.1'): the bin directory of that
\* entry, which exists, is among the directories put in front of PATH.
C22_HighestVersionSelected ==
    (/\ pc = "locate"
     /\ Len(args.calls) >= 1
     /\ C16_LastTool = "ghostscript"
     /\ env.platform = "win32"
     /\ ~C17_Resolvable("ghostscript", args.before)
     /\ env.gs_reg # <<>>) =>
        \A i \in 1..Len(env.gs_reg) :
            ((\A j \in 1..Len(env.gs_reg) :
                  j # i => C22_Above(C22_Key(env.gs_reg[i].name),
                                     C22_Key(env.gs_reg[j].name)))
             /\ Child(env.gs_reg[i].roots[1], "bin") \in env.dirs) =>
                \E k \in 1..(Len(env.PATH) - Len(args.before)) :
                    env.PATH[k] = Child(env.gs_reg[i].roots[1], "bin")

\* C21: in a run with valid input the stages are entered in the order
\* locator (both calls), resolver, one backend, verifier, each at most once:
\* nothing is resolved before PATH holds what both locator calls found (an
\* installed Ghostscript is seen by the resolver), the backend is the child
\* process unless the request selects the library call, exactly one backend
\* is invoked and only once, after the resolution, and the verifier runs at
\* most once and only after the backend returned 0.
C21_Backend == IF args.use_cli THEN "process" ELSE "library"

C21_Order ==
    <<"locate tesseract", "locate ghostscript", "resolver", C21_Backend, "verifier">>

C21_Entered(stage) == \E i \in 1..Len(stages) : stages[i] = stage

C21_StagesInOrder ==
    (pc \in {"locate", "validate", "resolve", "execute", "post", "done", "raised"}
     /\ ~C12_InvalidInput) =>
        /\ \E n \in 0..Len(C21_Order) : stages = SubSeq(C21_Order, 1, n)
        /\ Resolved <=> C21_Entered("resolver")
        /\ Resolved =>
              /\ HasArg(env.PATH, "C:\\Program Files\\Tesseract-OCR")
              /\ env.gs_found <=> HasArg(env.PATH, "C:\\Program Files\\gs\\gs10.02\\bin")
              /\ env.gs_found => \A i \in 1..Len(Notes) : NoteNames(Notes[i]) # "Ghostscript"
        /\ cmd # None <=> C21_Entered("process")
        /\ options # None <=> C21_Entered("library")
        /\ C21_Entered("process") => args.use_cli
        /\ C21_Entered("library") => ~args.use_cli
        /\ pc \in {"post", "done", "raised"} => C21_Entered(C21_Backend)
        /\ verified # None <=> C21_Entered("verifier")
        /\ C21_Entered("verifier") => result = Some(0)

C21_Witness ==
    /\ pc = "done"
    /\ ~args.use_cli
    /\ env.gs_found
    /\ stages = <<"locate tesseract", "locate ghostscript", "resolver", "library", "verifier">>
    /\ env.PATH = <<"C:\\Program Files\\gs\\gs10.02\\bin",
                    "C:\\Program Files\\Tesseract-OCR", "">>
    /\ result = Some(0)
    /\ verified # None

\* C23: the resolution only weakens a request: the resolved deskew and
\* redo_ocr are true only if requested, the resolved optimize level is at
\* most the requested level brought into 0..3 (at most 1 when none was
\* requested), and force_ocr, jobs, the page range, the renderer, the
\* progress-bar flag, the input path and the output path reach the backend
\* that runs as they were requested.
C23_ResolutionOnlyWeakens ==
    /\ Resolved =>
          /\ deskew => args.deskew
          /\ redo_ocr => args.redo_ocr
          /\ Val(optimize_level) <=
                 IF args.optimize = None THEN 1 ELSE Min(3, Max(0, Val(args.optimize)))
    /\ cmd # None =>
          LET argv == Val(cmd)
          IN  /\ argv[4] = "/w/" \o Text(args.input_path)
              /\ argv[5] = "/w/" \o Text(args.output_path)
              /\ HasArg(argv, "--force-ocr") <=> args.force_ocr
              /\ HasArg(argv, "--no-progress") <=> ~args.progress_bar
              /\ HasArg(argv, "--jobs") <=> args.jobs # None
              /\ args.jobs # None => ArgAfter(argv, "--jobs") = Text(Str(Val(args.jobs)))
              /\ HasArg(argv, "--pages") <=> (args.pages # None /\ Val(args.pages) # "")
              /\ HasArg(argv, "--pages") => ArgAfter(argv, "--pages") = Val(args.pages)
              /\ HasArg(argv, args.pdf_renderer)
    /\ options # None =>
          LET o == Val(options)
          IN  /\ o.input_file = "/w/" \o Text(args.input_path)
              /\ o.output_file = "/w/" \o Text(args.output_path)
              /\ o.force_ocr = args.force_ocr
              /\ o.progress_bar = args.progress_bar
              /\ o.jobs = args.jobs
              /\ o.pages = args.pages
              /\ o.pdf_renderer = args.pdf_renderer

====
